---- MODULE Spec2Model ----
(***************************************************************************)
(* A model of kilo-rs (src/src/main.rs): the row store, the render mapper, *)
(* the syntax engine, the search engine and the key loop of the editor.    *)
(*                                                                         *)
(* Text is a sequence of one-character strings (the source is byte         *)
(* oriented and the model keeps to ASCII).  Source indices are 0-based;    *)
(* the sequences here are 1-based, so source position i is element i + 1.  *)
(* A Rust panic (index out of range, unwrap of None, RefCell double        *)
(* borrow, arithmetic overflow in a checked build) ends the process: the   *)
(* model records it in the field `panic` and the program then stops in the *)
(* state Crashed.                                                          *)
(***************************************************************************)
EXTENDS Integers, Sequences, FiniteSets, TLC

VARIABLES
    cfg,        \* the EditorConfig aggregate (main.rs 67-90) plus `panic`
    mode,       \* where the program is: "main" (main loop), "find" (inside
                \* editor_prompt called by editor_find), "crashed"
    prompt,     \* locals of editor_find / editor_prompt: buf, saved_cx, ...
    hl_before,  \* history: every row's hl when the search session started
    probe       \* the function under test and its result, when a pure function
                \* is run by itself (the mapper, apply_syntax step by step)

vars == <<cfg, mode, prompt, hl_before, probe>>

----------------------------------------------------------------------------
(* Program constants *)

KILO_TAB_STOP == 8

TAB == "\t"
QUOTE == "\""
APOS == "'"
BACKSLASH == "\\"

HL_NUMBER_FLAG == 1
HL_STRING_FLAG == 2

Digits == {"0", "1", "2", "3", "4", "5", "6", "7", "8", "9"}

\* The characters of ",.()+-/*=~%<>[];" and the ASCII white space.
SeparatorChars ==
    {" ", TAB, "\n", "\r", "\f",
     ",", ".", "(", ")", "+", "-", "/", "*", "=", "~", "%", "<", ">", "[", "]", ";"}

is_seperator(c) == c \in SeparatorChars

\* The one entry of hldb built by EditorConfig::new.
C_SYNTAX ==
    [ filetype  |-> "c",
      filematch |-> {"c", "h", "cpp"},
      keywords  |-> << <<"s","w","i","t","c","h">>,
                       <<"i","f">>,
                       <<"w","h","i","l","e">>,
                       <<"f","o","r">>,
                       <<"b","r","e","a","k">>,
                       <<"c","o","n","t","i","n","u","e">>,
                       <<"r","e","t","u","r","n">>,
                       <<"e","l","s","e">>,
                       <<"s","t","r","u","c","t">>,
                       <<"u","n","i","o","n">>,
                       <<"t","y","p","e","d","e","f">>,
                       <<"s","t","a","t","i","c">>,
                       <<"e","n","u","m">>,
                       <<"c","l","a","s","s">>,
                       <<"c","a","s","e">>,
                       <<"i","n","t","|">>,
                       <<"l","o","n","g","|">>,
                       <<"d","o","u","b","l","e","|">>,
                       <<"f","l","o","a","t","|">>,
                       <<"c","h","a","r","|">>,
                       <<"u","n","s","i","g","n","e","d","|">>,
                       <<"s","i","g","n","e","d","|">>,
                       <<"v","o","i","d","|">> >>,
      singleline_comment_start |-> <<"/", "/">>,
      multiline_comment_start  |-> <<"/", "*">>,
      multiline_comment_end    |-> <<"*", "/">>,
      flags |-> 3 ]

hldb == <<C_SYNTAX>>

\* Option<T>: None is the empty sequence, Some(x) is <<x>>.
None == <<>>
Some(x) == <<x>>

----------------------------------------------------------------------------
(* Text helpers (str / slice primitives of the Rust standard library) *)

Min(a, b) == IF a < b THEN a ELSE b

\* s[from..] with 0-based from <= len
Suffix(s, from) == SubSeq(s, from + 1, Len(s))

\* s[..to] with 0-based to <= len
Prefix(s, to) == SubSeq(s, 1, to)

\* str::starts_with
StartsWith(s, p) == Len(p) <= Len(s) /\ SubSeq(s, 1, Len(p)) = p

\* str::find: the 0-based index of the first occurrence of q in s, or -1
Find(s, q) ==
    LET hits == {k \in 0..(Len(s) - Len(q)) : SubSeq(s, k + 1, k + Len(q)) = q}
    IN IF hits = {} THEN -1 ELSE CHOOSE k \in hits : \A j \in hits : k <= j

\* vec![v; n]
Repeat(v, n) == [k \in 1..n |-> v]

\* hl[from..to] = v for a slice inside the vector
Fill(hl, from, to, v) ==
    [k \in 1..Len(hl) |-> IF from < k /\ k <= to THEN v ELSE hl[k]]

\* Vec::insert / String::insert at 0-based `at`
InsertAt(s, at, x) == SubSeq(s, 1, at) \o <<x>> \o SubSeq(s, at + 1, Len(s))

\* Vec::remove / String::remove at 0-based `at`
RemoveAt(s, at) == SubSeq(s, 1, at) \o SubSeq(s, at + 2, Len(s))

----------------------------------------------------------------------------
(* Render mapper *)

RECURSIVE CxToRxWalk(_, _, _)
CxToRxWalk(chars, k, rx) ==
    IF k > Len(chars) THEN rx
    ELSE CxToRxWalk(chars, k + 1,
                    IF chars[k] = TAB
                    THEN rx + ((KILO_TAB_STOP - 1) - (rx % KILO_TAB_STOP)) + 1
                    ELSE rx + 1)

\* editor_row_cx_to_rx, for cx <= len (the slice &row.chars[..cx])
editor_row_cx_to_rx(row, cx) == CxToRxWalk(Prefix(row.chars, cx), 1, 0)

RECURSIVE RxToCxWalk(_, _, _, _)
RxToCxWalk(chars, k, cur_rx, rx) ==
    IF k > Len(chars) THEN Len(chars)
    ELSE LET nxt == IF chars[k] = TAB
                    THEN cur_rx + ((KILO_TAB_STOP - 1) - (cur_rx % KILO_TAB_STOP)) + 1
                    ELSE cur_rx + 1
         IN IF nxt > rx THEN k - 1 ELSE RxToCxWalk(chars, k + 1, nxt, rx)

\* A walk that returns the column after the one whose width first exceeds rx.
editor_row_rx_to_cx_late(row, rx) ==
    Min(RxToCxWalk(row.chars, 1, 0, rx) + 1, Len(row.chars))

\* editor_row_rx_to_cx
editor_row_rx_to_cx(row, rx) == RxToCxWalk(row.chars, 1, 0, rx)

----------------------------------------------------------------------------
(* Syntax engine: apply_syntax, one loop iteration at a time *)

\* The scan state of apply_syntax: the loop variables, the row's hl vector,
\* `done` once the loop has ended and `panic` if an index was out of range.
ScanStart(row, in_comment) ==
    [ i |-> 0, hl |-> row.hl, in_comment |-> in_comment, in_string |-> FALSE,
      prev_sep |-> TRUE, done |-> Len(row.render) = 0, panic |-> FALSE ]

ScanPanic(s) == [s EXCEPT !.panic = TRUE, !.done = TRUE]

\* `continue` / fall out of the loop body with i advanced to ni
ScanNext(s, n, ni) == [s EXCEPT !.i = ni, !.done = ~(ni < n)]

\* The comparison of one keyword of the table at position i (main.rs 425-439):
\* kw is the text compared, klen the length highlighted and the offset of the
\* character that must be a separator.
KeywordIsKw2(keyword) == keyword[Len(keyword)] = "|"

KeywordLen(keyword) == IF KeywordIsKw2(keyword) THEN Len(keyword) - 1 ELSE Len(keyword)

KeywordText(keyword) ==
    IF KeywordIsKw2(keyword) THEN Prefix(keyword, KeywordLen(keyword) - 1) ELSE keyword

\* A keyword loop that does not look at the character after the keyword.
KeywordLoop_NoSeparator(keywords, k, render, s) ==
    LET starts == {j \in k..Len(keywords) :
                     StartsWith(Suffix(render, s.i), KeywordText(keywords[j]))}
        j == CHOOSE j \in starts : \A m \in starts : j <= m
        klen == KeywordLen(keywords[j])
    IN IF starts = {} THEN s
       ELSE IF s.i + klen > Len(s.hl) THEN ScanPanic(s)
       ELSE [s EXCEPT !.hl = Fill(s.hl, s.i, s.i + klen,
                                  IF KeywordIsKw2(keywords[j]) THEN "Keyword2" ELSE "Keyword1"),
                      !.i = s.i + klen]

\* for keyword in keywords.iter() { ... } from keyword number k on.  The result
\* is the scan state after the loop: hl and i changed by a match, or panic.
RECURSIVE KeywordLoop(_, _, _, _)
KeywordLoop(keywords, k, render, s) ==
    IF k > Len(keywords) THEN s
    ELSE LET keyword == keywords[k]
             klen == KeywordLen(keyword)
             kw == KeywordText(keyword)
             slice == Suffix(render, s.i)
         IN IF ~StartsWith(slice, kw) THEN KeywordLoop(keywords, k + 1, render, s)
            ELSE IF klen >= Len(slice) THEN ScanPanic(s)          \* bytes[klen]
            ELSE IF ~is_seperator(slice[klen + 1])
                 THEN KeywordLoop(keywords, k + 1, render, s)
            ELSE IF s.i + klen > Len(s.hl) THEN ScanPanic(s)      \* row.hl[i..i + klen]
            ELSE [s EXCEPT !.hl = Fill(s.hl, s.i, s.i + klen,
                                       IF KeywordIsKw2(keyword) THEN "Keyword2" ELSE "Keyword1"),
                           !.i = s.i + klen]

\* One iteration of `while i < n` (main.rs 342-456) on the row's render.
ScanStep(syntax, render, s) ==
    LET n == Len(render)
        i == s.i
        hln == Len(s.hl)
        c == render[i + 1]
        slice == Suffix(render, i)
        scs == syntax.singleline_comment_start
        mcs == syntax.multiline_comment_start
        mce == syntax.multiline_comment_end
        strings == (syntax.flags \div HL_STRING_FLAG) % 2 = 1
        numbers == (syntax.flags \div HL_NUMBER_FLAG) % 2 = 1
        prev_hl == IF i > 0 THEN s.hl[i] ELSE "Normal"
    IN
    IF i > 0 /\ i > hln THEN ScanPanic(s)                         \* row.hl[i - 1]
    ELSE IF Len(scs) > 0 /\ ~s.in_string /\ ~s.in_comment /\ StartsWith(slice, scs)
    THEN IF i > hln THEN ScanPanic(s)                             \* row.hl[i..]
         ELSE [s EXCEPT !.hl = Fill(s.hl, i, hln, "Comment"), !.done = TRUE]
    ELSE IF Len(mcs) > 0 /\ Len(mce) > 0 /\ ~s.in_string /\ s.in_comment
    THEN IF i >= hln THEN ScanPanic(s)                            \* row.hl[i]
         ELSE IF StartsWith(render, mce)                          \* row.render.starts_with(mce)
         THEN IF i + Len(mce) > hln THEN ScanPanic(s)             \* row.hl[i..i + mce_len]
              ELSE ScanNext([s EXCEPT !.hl = Fill(s.hl, i, i + Len(mce), "MLComment"),
                                      !.in_comment = FALSE, !.prev_sep = TRUE],
                            n, i + Len(mce))
         ELSE ScanNext([s EXCEPT !.hl = Fill(s.hl, i, i + 1, "MLComment")], n, i + 1)
    ELSE IF Len(mcs) > 0 /\ Len(mce) > 0 /\ ~s.in_string /\ StartsWith(slice, mcs)
    THEN IF i + Len(mcs) > hln THEN ScanPanic(s)                  \* row.hl[i..i + mcs_len]
         ELSE ScanNext([s EXCEPT !.hl = Fill(s.hl, i, i + Len(mcs), "MLComment"),
                                 !.in_comment = TRUE],
                       n, i + Len(mcs))
    ELSE IF strings /\ s.in_string
    THEN IF i >= hln THEN ScanPanic(s)                            \* row.hl[i]
         ELSE IF c = BACKSLASH /\ i + 1 < n
         THEN IF i + 1 >= hln THEN ScanPanic(s)                   \* row.hl[i + 1]
              ELSE ScanNext([s EXCEPT !.hl = Fill(s.hl, i, i + 2, "String")], n, i + 2)
         ELSE ScanNext([s EXCEPT !.hl = Fill(s.hl, i, i + 1, "String"),
                                 !.in_string = ~(c = QUOTE \/ c = APOS),
                                 !.prev_sep = TRUE],
                       n, i + 1)
    ELSE IF strings /\ (c = QUOTE \/ c = APOS)
    THEN IF i >= hln THEN ScanPanic(s)                            \* row.hl[i]
         ELSE ScanNext([s EXCEPT !.hl = Fill(s.hl, i, i + 1, "String"),
                                 !.in_string = TRUE],
                       n, i + 1)
    ELSE IF numbers /\ (   (c \in Digits /\ (s.prev_sep \/ prev_hl = "Number"))
                        \/ (c = "." /\ prev_hl = "Number"))
    THEN IF i >= hln THEN ScanPanic(s)                            \* row.hl[i]
         ELSE ScanNext([s EXCEPT !.hl = Fill(s.hl, i, i + 1, "Number"),
                                 !.prev_sep = FALSE],
                       n, i + 1)
    ELSE LET k == IF s.prev_sep THEN KeywordLoop(syntax.keywords, 1, render, s) ELSE s
         IN IF k.panic THEN k
            ELSE ScanNext([k EXCEPT !.prev_sep = is_seperator(c)], n, k.i + 1)

\* apply_syntax: the loop run to its end.
RECURSIVE ScanRun(_, _, _)
ScanRun(syntax, render, s) ==
    IF s.done THEN s ELSE ScanRun(syntax, render, ScanStep(syntax, render, s))

apply_syntax(syntax, in_comment, row) == ScanRun(syntax, row.render, ScanStart(row, in_comment))

----------------------------------------------------------------------------
(* usize arithmetic.  USIZE_MAX stands for 2^64 - 1, the value an unchecked
   (release) build leaves after 0 - 1; a checked (debug) build panics there.
   The only arithmetic done on an index is + 1 and - 1. *)

USIZE_MAX == -1

UsizeOverflowsInc(x) == x = USIZE_MAX
UsizeOverflowsDec(x) == x = 0
UsizeInc(x) == IF x = USIZE_MAX THEN 0 ELSE x + 1
UsizeDec(x) == IF x = 0 THEN USIZE_MAX ELSE x - 1
UsizeLess(a, b) == IF b = USIZE_MAX THEN a # USIZE_MAX ELSE (a # USIZE_MAX /\ a < b)

----------------------------------------------------------------------------
(* Row operations *)

\* Row::default()
DefaultRow ==
    [idx |-> 0, chars |-> <<>>, render |-> <<>>, hl |-> <<>>, hl_open_comment |-> FALSE]

\* The result of an operation on the row vector: the rows, or a panic.
RowsOk(rows) == [rows |-> rows, panic |-> FALSE]
RowsPanic(rows) == [rows |-> rows, panic |-> TRUE]

\* editor_update_syntax (main.rs 298-323).  apply_syntax takes in_comment by
\* value, so the caller's in_comment is still the value passed in when it is
\* compared with and stored into hl_open_comment.  The body of the while loop
\* starts with a second rows.borrow_mut() while the first is alive: a panic.
editor_update_syntax(edit_syntax, rows, cy) ==
    IF cy >= Len(rows) THEN RowsPanic(rows)                       \* right[0]
    ELSE LET numrows == Len(rows)
             row0 == rows[cy + 1]
             row == [row0 EXCEPT !.hl = Repeat("Normal", Len(row0.chars))]
             in_comment == row.idx # 0 /\ (IF cy > 0 THEN rows[cy].hl_open_comment ELSE FALSE)
             sc == apply_syntax(edit_syntax[1], in_comment, row)
             changed == row.hl_open_comment # in_comment
         IN IF edit_syntax = None THEN RowsOk([rows EXCEPT ![cy + 1] = row])
            ELSE IF sc.panic THEN RowsPanic(rows)
            ELSE IF changed /\ (UsizeOverflowsInc(row.idx) \/ UsizeLess(UsizeInc(row.idx), numrows))
                 THEN RowsPanic(rows)                             \* line 313
            ELSE RowsOk([rows EXCEPT ![cy + 1] =
                            [row EXCEPT !.hl = sc.hl, !.hl_open_comment = in_comment]])

\* The loop of editor_update_row over row.chars: idx advances in the tab branch only.
RECURSIVE RenderWalk(_, _, _, _)
RenderWalk(chars, k, idx, render) ==
    IF k > Len(chars) THEN render
    ELSE IF chars[k] = TAB
    THEN LET pad == KILO_TAB_STOP - (idx % KILO_TAB_STOP)   \* one space, then up to the stop
         IN RenderWalk(chars, k + 1, idx + pad, render \o Repeat(" ", pad))
    ELSE RenderWalk(chars, k + 1, idx, Append(render, chars[k]))

RenderOf(chars) == RenderWalk(chars, 1, 0, <<>>)

\* editor_update_row (main.rs 540-560)
editor_update_row(syntax, rows, cy) ==
    IF cy >= Len(rows) THEN RowsPanic(rows)                       \* rows[cy]
    ELSE editor_update_syntax(syntax,
                              [rows EXCEPT ![cy + 1].render = RenderOf(rows[cy + 1].chars)],
                              cy)

\* editor_free_row
editor_free_row(row) == [row EXCEPT !.chars = <<>>, !.render = <<>>, !.hl = <<>>]

Panic(c) == [c EXCEPT !.panic = TRUE]

\* The result of a row operation put back into the editor state.
WithRows(c, r) == IF r.panic THEN Panic(c) ELSE [c EXCEPT !.rows = r.rows]

\* editor_insert_row (main.rs 521-538); `checks` is whether the build checks
\* arithmetic overflow.
editor_insert_row(c, chars, at, checks) ==
    IF c.panic \/ at > c.numrows THEN c
    ELSE LET bumped == {j \in (at + 1)..(c.numrows - 1) : TRUE}
             overflow == \E j \in bumped : UsizeOverflowsInc(c.rows[j + 1].idx)
             shifted == [j \in 1..Len(c.rows) |->
                           IF (j - 1) \in bumped
                           THEN [c.rows[j] EXCEPT !.idx = UsizeInc(c.rows[j].idx)]
                           ELSE c.rows[j]]
             row == [DefaultRow EXCEPT !.idx = at, !.chars = chars]
             rows == InsertAt(shifted, at, row)
         IN IF overflow /\ checks THEN Panic(c)
            ELSE WithRows([c EXCEPT !.numrows = Len(rows), !.dirty = TRUE, !.rows = rows],
                          editor_update_row(c.editor_syntax, rows, at))

\* editor_del_row (main.rs 568-579)
editor_del_row(c, at, checks) ==
    IF c.panic \/ at >= c.numrows THEN c
    ELSE IF c.cy >= Len(c.rows) THEN Panic(c)                     \* cfg.rows[cfg.cy]
    ELSE LET freed == [c.rows EXCEPT ![c.cy + 1] = editor_free_row(c.rows[c.cy + 1])]
             removed == RemoveAt(freed, at)
             numrows == c.numrows - 1
             lowered == {j \in at..(numrows - 2) : TRUE}              \* at..numrows - 1
             overflow == \E j \in lowered : UsizeOverflowsDec(removed[j + 1].idx)
             rows == [j \in 1..Len(removed) |->
                        IF (j - 1) \in lowered
                        THEN [removed[j] EXCEPT !.idx = UsizeDec(removed[j].idx)]
                        ELSE removed[j]]
         IN IF numrows = 0 THEN Panic(c)                          \* cfg.numrows - 1
            ELSE IF overflow /\ checks THEN Panic(c)
            ELSE [c EXCEPT !.rows = rows, !.numrows = numrows, !.dirty = TRUE]

\* An insert that leaves render and hl as they were.
editor_row_insert_char_no_update(syntax, rows, at, ch, cy) ==
    IF cy >= Len(rows) THEN RowsPanic(rows)
    ELSE LET len == Len(rows[cy + 1].chars)
             at1 == IF at > len THEN len ELSE at
         IN RowsOk([rows EXCEPT ![cy + 1].chars = InsertAt(rows[cy + 1].chars, at1, ch)])

\* editor_row_insert_char (main.rs 581-594)
editor_row_insert_char(syntax, rows, at, ch, cy) ==
    IF cy >= Len(rows) THEN RowsPanic(rows)                       \* rows[cy]
    ELSE LET len == Len(rows[cy + 1].chars)
             at1 == IF at > len THEN len ELSE at
         IN editor_update_row(syntax,
                              [rows EXCEPT ![cy + 1].chars = InsertAt(rows[cy + 1].chars, at1, ch)],
                              cy)

\* editor_row_del_char (main.rs 596-603)
editor_row_del_char(syntax, rows, at, cy) ==
    IF cy >= Len(rows) THEN RowsPanic(rows)
    ELSE IF at >= Len(rows[cy + 1].chars) THEN RowsOk(rows)
    ELSE editor_update_row(syntax,
                           [rows EXCEPT ![cy + 1].chars = RemoveAt(rows[cy + 1].chars, at)],
                           cy)

\* editor_row_append_str (main.rs 605-609)
editor_row_append_str(syntax, rows, cy, str) ==
    IF cy >= Len(rows) THEN RowsPanic(rows)
    ELSE editor_update_row(syntax, [rows EXCEPT ![cy + 1].chars = rows[cy + 1].chars \o str], cy)

----------------------------------------------------------------------------
(* Editor operations *)

\* editor_insert_char (main.rs 613-627)
editor_insert_char(c, ch, checks) ==
    LET c1 == IF c.cy = c.numrows THEN editor_insert_row(c, <<>>, 0, checks) ELSE c
        c2 == WithRows(c1, editor_row_insert_char(c1.editor_syntax, c1.rows, c1.cx, ch, c1.cy))
    IN IF c1.panic \/ c2.panic THEN Panic(c)
       ELSE [c2 EXCEPT !.cx = c2.cx + 1, !.dirty = TRUE]

\* editor_insert_new_line (main.rs 629-642)
editor_insert_new_line(c, checks) ==
    LET chars == c.rows[c.cy + 1].chars
        c1 == editor_insert_row(c, Suffix(chars, c.cx - 1), c.cy + 1, checks)
        c2 == WithRows(c1, editor_update_row(c1.editor_syntax,
                                             [c1.rows EXCEPT ![c.cy + 1].chars = Prefix(chars, c.cx - 1)],
                                             c.cy))
        c3 == IF c.cx = 0 THEN editor_insert_row(c, <<>>, 0, checks)
              ELSE IF c.cy >= Len(c.rows) THEN Panic(c)           \* cfg.rows[cfg.cy]
              ELSE IF c.cx - 1 > Len(chars) THEN Panic(c)         \* &chars[cfg.cx - 1..]
              ELSE IF c1.panic THEN c1
              ELSE c2
    IN IF c3.panic THEN c3 ELSE [c3 EXCEPT !.cy = c.cy + 1, !.cx = 0]

\* editor_del_char (main.rs 644-673)
editor_del_char(c, checks) ==
    IF c.cy = c.numrows THEN c
    ELSE IF c.cx = 0 /\ c.cy = 0 THEN c
    ELSE IF c.cx > 0
    THEN LET c1 == WithRows(c, editor_row_del_char(c.editor_syntax, c.rows, c.cx - 1, c.cy))
         IN IF c1.panic THEN c1 ELSE [c1 EXCEPT !.cx = c.cx - 1, !.dirty = TRUE]
    ELSE IF c.cy >= Len(c.rows) THEN Panic(c)                     \* cfg.rows[cfg.cy]
    ELSE LET chars == c.rows[c.cy + 1].chars
             c1 == [c EXCEPT !.cx = Len(c.rows[c.cy].chars)]
             c2 == WithRows(c1, editor_row_append_str(c.editor_syntax, c.rows, c.cy - 1, chars))
             c3 == editor_del_row(c2, c2.cy, checks)
         IN IF c2.panic THEN c2
            ELSE IF c3.panic THEN c3
            ELSE [c3 EXCEPT !.cy = c3.cy - 1, !.dirty = TRUE]

\* editor_move_cursor (main.rs 1148-1191).  `row` keeps the row of the old
\* cursor line when the new line is past the last row.
editor_move_cursor(c, key) ==
    LET row0 == IF c.cy < c.numrows THEN c.rows[c.cy + 1] ELSE DefaultRow
        c1 == CASE key = "ArrowLeft" ->
                     IF c.cx # 0 THEN [c EXCEPT !.cx = c.cx - 1]
                     ELSE IF c.cy > 0
                     THEN IF c.cy - 1 >= Len(c.rows) THEN Panic(c)        \* cfg.rows[cfg.cy]
                          ELSE [c EXCEPT !.cy = c.cy - 1, !.cx = Len(c.rows[c.cy].chars)]
                     ELSE c
               [] key = "ArrowRight" ->
                     IF c.cx < Len(row0.chars) THEN [c EXCEPT !.cx = c.cx + 1]
                     ELSE IF c.cx = Len(row0.chars) THEN [c EXCEPT !.cy = c.cy + 1, !.cx = 0]
                     ELSE c
               [] key = "ArrowUp" ->
                     IF c.cy # 0 THEN [c EXCEPT !.cy = c.cy - 1] ELSE c
               [] key = "ArrowDown" ->
                     IF c.cy < c.numrows THEN [c EXCEPT !.cy = c.cy + 1] ELSE c
               [] OTHER -> c
        row == IF c1.cy < c1.numrows THEN c1.rows[c1.cy + 1] ELSE row0
        rowlen == Len(row.chars)
    IN IF c1.panic THEN c1
       ELSE IF c1.cx > rowlen THEN [c1 EXCEPT !.cx = rowlen] ELSE c1

RECURSIVE MoveCursorTimes(_, _, _)
MoveCursorTimes(c, key, times) ==
    IF times = 0 \/ c.panic THEN c
    ELSE MoveCursorTimes(editor_move_cursor(c, key), key, times - 1)

\* The PageUp / PageDown arm of editor_process_keypress (main.rs 1089-1108)
PageKey(c, key) ==
    LET down == c.rowoff + c.screenrows - 1
        c1 == IF key = "PageUp" THEN [c EXCEPT !.cy = c.rowoff]
              ELSE [c EXCEPT !.cy = IF down > c.numrows THEN c.numrows ELSE down]
    IN MoveCursorTimes(c1, IF key = "PageUp" THEN "ArrowUp" ELSE "ArrowDown", c.screenrows)

----------------------------------------------------------------------------
(* Output: the per-frame recomputation *)

\* A scroll that never moves the window down to the cursor.
editor_scroll_no_follow(c) ==
    LET onrow == c.cy < c.numrows
        rx == IF onrow THEN editor_row_cx_to_rx(c.rows[c.cy + 1], c.cx) ELSE 0
        rowoff1 == IF c.cy < c.rowoff THEN c.cy ELSE c.rowoff
        coloff1 == IF rx < c.coloff THEN rx ELSE c.coloff
        coloff2 == IF rx >= coloff1 + c.screencols THEN rx - c.screencols + 1 ELSE coloff1
    IN IF onrow /\ c.cx > Len(c.rows[c.cy + 1].chars) THEN Panic(c)
       ELSE [c EXCEPT !.rx = rx, !.rowoff = rowoff1, !.coloff = coloff2]

\* editor_scroll (main.rs 772-790)
editor_scroll(c) ==
    LET onrow == c.cy < c.numrows
        rx == IF onrow THEN editor_row_cx_to_rx(c.rows[c.cy + 1], c.cx) ELSE 0
        rowoff1 == IF c.cy < c.rowoff THEN c.cy ELSE c.rowoff
        rowoff2 == IF c.cy >= rowoff1 + c.screenrows THEN c.cy - c.screenrows + 1 ELSE rowoff1
        coloff1 == IF rx < c.coloff THEN rx ELSE c.coloff
        coloff2 == IF rx >= coloff1 + c.screencols THEN rx - c.screencols + 1 ELSE coloff1
    IN IF onrow /\ c.cx > Len(c.rows[c.cy + 1].chars) THEN Panic(c)      \* &row.chars[..cx]
       ELSE [c EXCEPT !.rx = rx, !.rowoff = rowoff2, !.coloff = coloff2]

\* Whether drawing file row `filerow` panics (main.rs 818-849): the slice
\* render[coloff..] must exist, and hl is read at 0 .. len - 1.
DrawRowPanics(c, filerow) ==
    LET row == c.rows[filerow + 1]
        rest == Len(row.render) - c.coloff
        len == Min(IF rest < 0 THEN 0 ELSE rest, c.screencols)
    IN \/ c.coloff > Len(row.render)                              \* get(coloff..).unwrap()
       \/ len > Len(row.hl)                                       \* hl[i]

\* editor_draw_rows changes nothing; it can panic.
editor_draw_rows_panics(c) ==
    \E y \in 0..(c.screenrows - 1) :
        y + c.rowoff < c.numrows /\ DrawRowPanics(c, y + c.rowoff)

\* editor_refresh_screen (main.rs 916-938)
editor_refresh_screen(c) ==
    LET c1 == editor_scroll(c)
    IN IF c1.panic THEN c1
       ELSE IF editor_draw_rows_panics(c1) THEN Panic(c1)
       ELSE c1

----------------------------------------------------------------------------
(* Find *)

\* The restore at the head of editor_find_callback (main.rs 678-684):
\* saved_hl is never set back to None.
RestoreSavedHl(c) ==
    IF c.saved_hl = None THEN c
    ELSE IF c.saved_hl_line < 0 \/ c.saved_hl_line >= Len(c.rows) THEN Panic(c)
    ELSE LET saved == c.saved_hl[1]
             hl == c.rows[c.saved_hl_line + 1].hl
         IN IF Len(hl) > Len(saved) THEN Panic(c)                 \* saved_hl[i]
            ELSE [c EXCEPT !.rows[c.saved_hl_line + 1].hl = Prefix(saved, Len(hl))]

\* The body of `if let Some(index) = match_index` (main.rs 725-740)
FindHit(c, query, current, index) ==
    LET row == c.rows[current + 1]
    IN IF index + Len(query) > Len(row.hl) THEN Panic(c)          \* row.hl[index..index + len]
       ELSE [c EXCEPT !.last_match = current,
                      !.cy = current,
                      !.cx = editor_row_rx_to_cx(row, index),
                      !.rowoff = c.numrows,
                      !.saved_hl_line = current,
                      !.saved_hl = Some(row.hl),
                      !.rows[current + 1].hl = Fill(row.hl, index, index + Len(query), "Match")]

\* `for _ in 0..cfg.numrows` (main.rs 708-741) with `left` iterations to go
RECURSIVE FindScan(_, _, _, _)
FindScan(c, query, current, left) ==
    IF left = 0 THEN c
    ELSE LET moved == IF c.direction = "Forward" THEN current + 1 ELSE current - 1
             cur == IF moved = -1 THEN c.numrows - 1
                    ELSE IF moved = c.numrows THEN 0
                    ELSE moved
             index == Find(c.rows[cur + 1].render, query)
         IN IF cur < 0 \/ cur >= Len(c.rows) THEN Panic(c)        \* cfg.rows[current]
            ELSE IF index # -1 THEN FindHit(c, query, cur, index)
            ELSE FindScan(c, query, cur, left - 1)

\* The match on key (main.rs 685-705); the two terminating keys return early.
FindDirection(c, key) ==
    LET c1 == CASE key \in {"ArrowRight", "ArrowDown"} -> [c EXCEPT !.direction = "Forward"]
                [] key \in {"ArrowLeft", "ArrowUp"} -> [c EXCEPT !.direction = "Backward"]
                [] OTHER -> [c EXCEPT !.last_match = -1, !.direction = "Forward"]
    IN IF c1.last_match = -1 THEN [c1 EXCEPT !.direction = "Forward"] ELSE c1

\* editor_find_callback (main.rs 677-742)
editor_find_callback(c, query, key) ==
    LET c1 == RestoreSavedHl(c)
        c2 == FindDirection(c1, key)
    IN IF c1.panic THEN c1
       ELSE IF key \in {"CarriageReturn", "EscapeSeq"}
            THEN [c1 EXCEPT !.last_match = -1, !.direction = "Forward"]
       ELSE FindScan(c2, query, c2.last_match, c2.numrows)

----------------------------------------------------------------------------
(* File I/O and construction *)

\* EditorConfig::new (main.rs 93-166) for a window of screenrows x screencols
\* below the two status lines.  filename holds the extension of the name.
EditorNew(screenrows, screencols) ==
    [ cx |-> 0, cy |-> 0, rx |-> 0, rowoff |-> 0, coloff |-> 0,
      rows |-> <<>>, numrows |-> 0,
      screenrows |-> screenrows, screencols |-> screencols,
      dirty |-> FALSE, filename |-> None,
      last_match |-> -1, direction |-> "Forward",
      saved_hl_line |-> -1, saved_hl |-> None,
      editor_syntax |-> None,
      panic |-> FALSE ]

\* The update of the cursor row repeated numrows times (main.rs 475-481)
RECURSIVE UpdateSyntaxTimes(_, _, _, _)
UpdateSyntaxTimes(syntax, rows, cy, times) ==
    IF times = 0 THEN RowsOk(rows)
    ELSE LET r == editor_update_syntax(syntax, rows, cy)
         IN IF r.panic THEN r ELSE UpdateSyntaxTimes(syntax, r.rows, cy, times - 1)

\* editor_select_syntax_highlight (main.rs 464-486)
editor_select_syntax_highlight(c) ==
    LET c1 == [c EXCEPT !.editor_syntax = None]
        matching == {k \in 1..Len(hldb) : c.filename[1] \in hldb[k].filematch}
        k == CHOOSE k \in matching : \A j \in matching : k <= j
        c2 == [c1 EXCEPT !.editor_syntax = Some(hldb[k])]
    IN IF c.filename = None THEN c1
       ELSE IF matching = {} THEN c1
       ELSE WithRows(c2, UpdateSyntaxTimes(c2.editor_syntax, c2.rows, c2.cy, c2.numrows))

RECURSIVE OpenLines(_, _, _, _)
OpenLines(c, lines, i, checks) ==
    IF i >= Len(lines) \/ c.panic THEN c
    ELSE OpenLines(editor_insert_row(c, lines[i + 1], i, checks), lines, i + 1, checks)

\* editor_open (main.rs 1195-1213), the file read without an I/O error
editor_open(c, ext, lines, checks) ==
    LET c1 == editor_select_syntax_highlight([c EXCEPT !.filename = Some(ext)])
        c2 == OpenLines(c1, lines, 0, checks)
    IN IF c2.panic THEN c2 ELSE [c2 EXCEPT !.dirty = FALSE]

\* editor_rows_to_string (main.rs 1215-1223)
RECURSIVE RowsToString(_, _)
RowsToString(rows, k) ==
    IF k > Len(rows) THEN <<>>
    ELSE rows[k].chars \o <<"\n">> \o RowsToString(rows, k + 1)

editor_rows_to_string(c) == RowsToString(c.rows, 1)

\* editor_save (main.rs 1225-1257).  `answer` is what editor_prompt returns:
\* None after Escape, the name typed (here its extension) after Enter; the
\* prompt refreshes the screen before every key it reads.  `io` is what the
\* file system does: "ok", "open_err" (the unwrap of the open panics) or
\* "write_err" (dirty is left as it was).
editor_save(c, answer, io) ==
    LET c0 == editor_refresh_screen(c)
        c1 == editor_select_syntax_highlight([c0 EXCEPT !.filename = answer])
    IN IF c0.panic THEN c0
       ELSE IF c1.panic \/ answer = None THEN c1
       ELSE IF io = "open_err" THEN Panic(c1)
       ELSE IF io = "ok" THEN [c1 EXCEPT !.dirty = FALSE]
       ELSE c1

----------------------------------------------------------------------------
(* Bounds of the model *)

MaxRows == 2        \* Enter and typing past the end stop adding rows here
MaxChars == 2       \* typing stops when the document holds this many characters
MaxQuery == 1       \* the longest search query typed
MaxMapLen == 3      \* the longest row given to the render mapper by itself
MaxLine == 5        \* the longest line given to apply_syntax by itself

\* The cursor is not moved below this line (ArrowRight and Enter move it down
\* without limit past the last row).
MaxCy == MaxRows + 1

\* No row's idx is driven above this (an insert at the top raises the idx of
\* the last row, and no delete lowers it again).
MaxIdx == MaxRows

----------------------------------------------------------------------------
(* The program as a state machine: one action per key read by the main loop
   (refresh the screen, then process the key) or by the prompt loop of the
   search (refresh the screen, read the key, run the callback). *)

NoPrompt == [buf |-> <<>>, saved_cx |-> 0, saved_cy |-> 0, saved_coloff |-> 0, saved_rowoff |-> 0]

NoProbe == [kind |-> "none"]

CrashedCfg == [EditorNew(0, 0) EXCEPT !.panic = TRUE]

\* The hl vector of every row
AllHl(c) == [k \in 1..Len(c.rows) |-> c.rows[k].hl]

\* The number of characters in the document
RECURSIVE TotalChars(_, _)
TotalChars(rows, k) == IF k > Len(rows) THEN 0 ELSE Len(rows[k].chars) + TotalChars(rows, k + 1)

\* The next state: c in the given mode, or the crash if c has panicked.
Becomes(c, m, p, h) ==
    /\ c.panic \/ (c.cy <= MaxCy /\ \A k \in 1..Len(c.rows) : c.rows[k].idx <= MaxIdx)
    /\ cfg' = IF c.panic THEN CrashedCfg ELSE c
    /\ mode' = IF c.panic THEN "crashed" ELSE m
    /\ prompt' = IF c.panic THEN NoPrompt ELSE p
    /\ hl_before' = IF c.panic THEN <<>> ELSE h
    /\ UNCHANGED probe

\* A handler run after the frame's refresh
AfterRefresh(c, handled) == IF c.panic THEN c ELSE handled

----------------------------------------------------------------------------
(* Keys read by the main loop (editor_process_keypress, main.rs 1075-1146) *)

InMain == mode = "main"

KeyChar(ch) ==
    /\ InMain
    /\ TotalChars(cfg.rows, 1) < MaxChars
    /\ cfg.cy = cfg.numrows => cfg.numrows < MaxRows
    /\ \E checks \in BOOLEAN :
          LET c0 == editor_refresh_screen(cfg)
          IN Becomes(AfterRefresh(c0, editor_insert_char(c0, ch, checks)), "main", NoPrompt, <<>>)

KeyEnter ==
    /\ InMain
    /\ cfg.numrows < MaxRows
    /\ \E checks \in BOOLEAN :
          LET c0 == editor_refresh_screen(cfg)
          IN Becomes(AfterRefresh(c0, editor_insert_new_line(editor_move_cursor(c0, "ArrowRight"), checks)),
                     "main", NoPrompt, <<>>)

KeyDelete ==
    /\ InMain
    /\ \E checks \in BOOLEAN :
          LET c0 == editor_refresh_screen(cfg)
          IN Becomes(AfterRefresh(c0, editor_del_char(c0, checks)), "main", NoPrompt, <<>>)

KeyArrow(key) ==
    /\ InMain
    /\ LET c0 == editor_refresh_screen(cfg)
       IN Becomes(AfterRefresh(c0, editor_move_cursor(c0, key)), "main", NoPrompt, <<>>)

KeyPage(key) ==
    /\ InMain
    /\ LET c0 == editor_refresh_screen(cfg)
       IN Becomes(AfterRefresh(c0, PageKey(c0, key)), "main", NoPrompt, <<>>)

KeyHome ==
    /\ InMain
    /\ LET c0 == editor_refresh_screen(cfg)
       IN Becomes(AfterRefresh(c0, [c0 EXCEPT !.cx = 0]), "main", NoPrompt, <<>>)

KeyEnd ==
    /\ InMain
    /\ LET c0 == editor_refresh_screen(cfg)
       IN Becomes(AfterRefresh(c0, IF c0.cy < c0.numrows
                                   THEN [c0 EXCEPT !.cx = Len(c0.rows[c0.cy + 1].chars)]
                                   ELSE c0),
                  "main", NoPrompt, <<>>)

\* Ctrl-F: editor_find saves the cursor and enters editor_prompt (main.rs 744-754)
KeyFind ==
    /\ InMain
    /\ LET c0 == editor_refresh_screen(cfg)
       IN Becomes(c0, "find",
                  [buf |-> <<>>, saved_cx |-> c0.cx, saved_cy |-> c0.cy,
                   saved_coloff |-> c0.coloff, saved_rowoff |-> c0.rowoff],
                  AllHl(c0))

\* Ctrl-S: editor_save (main.rs 1132-1133)
KeySave(answer, io) ==
    /\ InMain
    /\ LET c0 == editor_refresh_screen(cfg)
       IN Becomes(AfterRefresh(c0, editor_save(c0, answer, io)), "main", NoPrompt, <<>>)

----------------------------------------------------------------------------
(* Keys read by editor_prompt during a search (main.rs 946-986), each followed
   by editor_find_callback; the two that end the prompt return to editor_find,
   which puts the cursor and the offsets back (main.rs 756-759). *)

InFind == mode = "find"

FindReturn(c) ==
    IF c.panic THEN c
    ELSE [c EXCEPT !.cx = prompt.saved_cx, !.cy = prompt.saved_cy,
                   !.coloff = prompt.saved_coloff, !.rowoff = prompt.saved_rowoff]

FindKeyChar(ch) ==
    /\ InFind
    /\ Len(prompt.buf) < MaxQuery
    /\ LET c0 == editor_refresh_screen(cfg)
           buf == Append(prompt.buf, ch)
       IN Becomes(AfterRefresh(c0, editor_find_callback(c0, buf, "Char")),
                  "find", [prompt EXCEPT !.buf = buf], hl_before)

FindKeyDelete ==
    /\ InFind
    /\ LET c0 == editor_refresh_screen(cfg)
           buf == Prefix(prompt.buf, Len(prompt.buf) - 1)
       IN Becomes(AfterRefresh(c0, editor_find_callback(c0, buf, "Backspace")),
                  "find", [prompt EXCEPT !.buf = buf], hl_before)

FindKeyArrow(key) ==
    /\ InFind
    /\ LET c0 == editor_refresh_screen(cfg)
       IN Becomes(AfterRefresh(c0, editor_find_callback(c0, prompt.buf, key)),
                  "find", prompt, hl_before)

FindKeyEscape ==
    /\ InFind
    /\ LET c0 == editor_refresh_screen(cfg)
       IN Becomes(AfterRefresh(c0, FindReturn(editor_find_callback(c0, prompt.buf, "EscapeSeq"))),
                  "main", NoPrompt, <<>>)

FindKeyEnter ==
    /\ InFind
    /\ LET c0 == editor_refresh_screen(cfg)
           c1 == editor_find_callback(c0, prompt.buf, "CarriageReturn")
       IN IF Len(prompt.buf) # 0
          THEN Becomes(AfterRefresh(c0, FindReturn(c1)), "main", NoPrompt, <<>>)
          ELSE Becomes(AfterRefresh(c0, c1), "find", prompt, hl_before)

----------------------------------------------------------------------------
(* The program started on a file *)

\* What the program is started with: the window and, if a file is named, the
\* extension of its name and its lines.
Start(screenrows, screencols, ext, lines) ==
    [screenrows |-> screenrows, screencols |-> screencols, ext |-> ext, lines |-> lines]

\* main (main.rs 1259-1267) up to the loop
Started(st, checks) ==
    IF st.ext = "" THEN EditorNew(st.screenrows, st.screencols)
    ELSE editor_open(EditorNew(st.screenrows, st.screencols), st.ext, st.lines, checks)

InitFrom(starts) ==
    /\ \E st \in starts : \E checks \in BOOLEAN :
          LET c == Started(st, checks)
          IN /\ cfg = IF c.panic THEN CrashedCfg ELSE c
             /\ mode = IF c.panic THEN "crashed" ELSE "main"
    /\ prompt = NoPrompt
    /\ hl_before = <<>>
    /\ probe = NoProbe

EditKeys == {"*"}
FindKeys == {"*"}
ArrowKeys == {"ArrowLeft", "ArrowRight", "ArrowUp", "ArrowDown"}
PageKeys == {"PageUp", "PageDown"}

\* No file; a C file with a block-comment marker; a text file whose second
\* line, below a one-line window, holds a tab.
Starts ==
    { Start(2, 4, "", <<>>),
      Start(2, 4, "c", << <<"/", "*">> >>),
      Start(1, 4, "txt", << <<"a">>, <<"a", TAB, "*">> >>) }

Init == InitFrom(Starts)

NextEdit ==
    \/ \E ch \in EditKeys : KeyChar(ch)
    \/ KeyEnter
    \/ KeyDelete
    \/ \E key \in ArrowKeys : KeyArrow(key)
    \/ \E key \in PageKeys : KeyPage(key)
    \/ KeyHome
    \/ KeyEnd

NextFind ==
    \/ KeyFind
    \/ \E ch \in FindKeys : FindKeyChar(ch)
    \/ FindKeyDelete
    \/ \E key \in ArrowKeys : FindKeyArrow(key)
    \/ FindKeyEscape
    \/ FindKeyEnter

Next == NextEdit \/ NextFind

\* Editing and searching
Spec == Init /\ [][Next]_vars

\* The program when no search is started
SpecEdit == Init /\ [][NextEdit]_vars

\* What the save prompt returns and what the file system does
SaveAnswers == {None, Some("c"), Some("txt")}
SaveIo == {"ok", "open_err", "write_err"}

\* No file; a text file and a C file whose rows hold a digit
SaveStarts ==
    { Start(2, 4, "", <<>>),
      Start(2, 4, "txt", << <<"1">>, <<"2">> >>),
      Start(2, 4, "c", << <<"1">> >>) }

InitSave == InitFrom(SaveStarts)

NextSave ==
    \/ NextEdit
    \/ \E answer \in SaveAnswers : \E io \in SaveIo : KeySave(answer, io)

\* Editing and saving
SpecSave == InitSave /\ [][NextSave]_vars

\* Two-row files whose rows can be joined: a text file, and a C file whose
\* rows joined spell a keyword
JoinStarts ==
    { Start(2, 4, "txt", << <<"a">>, <<"b">> >>),
      Start(2, 4, "c", << <<"i">>, <<"f">> >>) }

InitJoin == InitFrom(JoinStarts)

\* Editing a two-row file
SpecJoin == InitJoin /\ [][NextEdit]_vars

\* Windows smaller than the text that is typed: one cell, and two by two
ScrollStarts ==
    { Start(1, 1, "", <<>>),
      Start(2, 2, "", <<>>) }

InitScroll == InitFrom(ScrollStarts)

\* Editing and searching in a small window
SpecScroll == InitScroll /\ [][Next]_vars

----------------------------------------------------------------------------
(* The render mapper run by itself on rows of ordinary characters and tabs *)

\* All sequences over `alphabet` of length at most n
RECURSIVE SeqsUpTo(_, _)
SeqsUpTo(alphabet, n) ==
    IF n = 0 THEN {<<>>}
    ELSE LET shorter == SeqsUpTo(alphabet, n - 1)
         IN shorter \cup {Append(t, a) : t \in {u \in shorter : Len(u) = n - 1}, a \in alphabet}

MapperRows == SeqsUpTo({"a", TAB}, MaxMapLen)

\* A row that holds `chars`, as far as the mapper reads it
RowOf(chars) == [DefaultRow EXCEPT !.chars = chars]

InMapper == probe.kind = "mapper"

InitMapper ==
    /\ cfg = EditorNew(1, 1)
    /\ mode = "main"
    /\ prompt = NoPrompt
    /\ hl_before = <<>>
    /\ \E chars \in MapperRows :
          probe = [kind |-> "mapper", chars |-> chars, op |-> "none", arg |-> 0, rx |-> 0, cx |-> 0]

\* editor_row_cx_to_rx at raw column c, and editor_row_rx_to_cx on its result
MapperRoundTrip(c) ==
    /\ InMapper
    /\ c <= Len(probe.chars)
    /\ LET row == RowOf(probe.chars)
           rx == editor_row_cx_to_rx(row, c)
       IN probe' = [probe EXCEPT !.op = "round", !.arg = c, !.rx = rx,
                                 !.cx = editor_row_rx_to_cx(row, rx)]
    /\ UNCHANGED <<cfg, mode, prompt, hl_before>>

\* editor_row_rx_to_cx at rendered column rx
MapperToRaw(rx) ==
    /\ InMapper
    /\ probe' = [probe EXCEPT !.op = "raw", !.arg = rx, !.rx = rx,
                              !.cx = editor_row_rx_to_cx(RowOf(probe.chars), rx)]
    /\ UNCHANGED <<cfg, mode, prompt, hl_before>>

NextMapper ==
    \/ \E c \in 0..MaxMapLen : MapperRoundTrip(c)
    \/ \E rx \in 0..(KILO_TAB_STOP * MaxMapLen + 1) : MapperToRaw(rx)

SpecMapper == InitMapper /\ [][NextMapper]_vars

----------------------------------------------------------------------------
(* apply_syntax run by itself, one loop iteration per step, on the lines of a
   C file; the row comes from editor_update_row and editor_update_syntax, so
   its hl is Normal throughout and the scan starts outside a comment. *)

SyntaxLines ==
    SeqsUpTo({"i", "f", " ", QUOTE}, MaxLine)
    \cup { <<"i","n","t","a","k","e">>,
           <<"i","n","t"," ","x">>,
           <<"x","i","f"," ">>,
           <<"1","i","f"," ">>,
           <<"*","/"," ","/","*","x","x","i","f"," ">>,
           <<"i","n","x"," ">>,
           <<"i","n","t"," ">>,
           <<"i","n","k",";">>,
           <<"/","*","*","/","x">>,
           <<"/","*"," ","a"," ","*","/"," ","x">>,
           <<QUOTE, APOS, "i", QUOTE>>,
           <<APOS, QUOTE, "i", APOS>>,
           <<QUOTE, BACKSLASH, QUOTE, "i", QUOTE, "i">> }

InSyntax == probe.kind = "syntax"

InitSyntax ==
    /\ cfg = EditorNew(1, 1)
    /\ mode = "main"
    /\ prompt = NoPrompt
    /\ hl_before = <<>>
    /\ \E chars \in SyntaxLines :
          LET row == [DefaultRow EXCEPT !.chars = chars,
                                        !.render = RenderOf(chars),
                                        !.hl = Repeat("Normal", Len(chars))]
          IN probe = [kind |-> "syntax", render |-> row.render, scan |-> ScanStart(row, FALSE)]

\* One iteration of the while loop of apply_syntax
SyntaxStep ==
    /\ InSyntax
    /\ ~probe.scan.done
    /\ probe' = [probe EXCEPT !.scan = ScanStep(C_SYNTAX, probe.render, probe.scan)]
    /\ UNCHANGED <<cfg, mode, prompt, hl_before>>

NextSyntax == SyntaxStep

SpecSyntax == InitSyntax /\ [][NextSyntax]_vars

----------------------------------------------------------------------------
(* A file loaded into a new editor by editor_open and written back out by
   editor_rows_to_string, with no key in between *)

\* The files: up to MaxRows lines of up to MaxChars characters each
LoadLines == SeqsUpTo(SeqsUpTo({"i", "f"}, MaxChars), MaxRows)
LoadExts == {"c", "txt"}

InLoad == probe.kind = "load"

InitLoad ==
    /\ cfg = EditorNew(2, 4)
    /\ mode = "main"
    /\ prompt = NoPrompt
    /\ hl_before = <<>>
    /\ probe = [kind |-> "load", stage |-> "new", lines |-> <<>>, text |-> <<>>]

\* editor_open on a new editor (main.rs 1263-1265)
LoadOp(ext, lines) ==
    /\ InLoad
    /\ probe.stage = "new"
    /\ \E checks \in BOOLEAN :
          LET c == editor_open(cfg, ext, lines, checks)
          IN /\ cfg' = IF c.panic THEN CrashedCfg ELSE c
             /\ mode' = IF c.panic THEN "crashed" ELSE "main"
    /\ probe' = [probe EXCEPT !.stage = "loaded", !.lines = lines]
    /\ UNCHANGED <<prompt, hl_before>>

\* editor_rows_to_string on what was loaded
ToTextOp ==
    /\ InLoad
    /\ probe.stage = "loaded"
    /\ mode = "main"
    /\ probe' = [probe EXCEPT !.stage = "text", !.text = editor_rows_to_string(cfg)]
    /\ UNCHANGED <<cfg, mode, prompt, hl_before>>

NextLoad ==
    \/ \E ext \in LoadExts : \E lines \in LoadLines : LoadOp(ext, lines)
    \/ ToTextOp

SpecLoad == InitLoad /\ [][NextLoad]_vars

----------------------------------------------------------------------------
(* The row store driven by direct calls of editor_insert_row and
   editor_del_row, the cursor moved by editor_move_cursor *)

RowStoreStarts ==
    { Start(2, 4, "", <<>>),
      Start(2, 4, "txt", << <<"a">> >>),
      Start(2, 4, "txt", << <<"a">>, <<"b">> >>) }

InitRowStore == InitFrom(RowStoreStarts)

InsertRowOp(at, chars) ==
    /\ InMain
    /\ cfg.numrows < MaxRows
    /\ \E checks \in BOOLEAN :
          Becomes(editor_insert_row(cfg, chars, at, checks), "main", NoPrompt, <<>>)

DelRowOp(at) ==
    /\ InMain
    /\ \E checks \in BOOLEAN :
          Becomes(editor_del_row(cfg, at, checks), "main", NoPrompt, <<>>)

MoveCursorOp(key) ==
    /\ InMain
    /\ Becomes(editor_move_cursor(cfg, key), "main", NoPrompt, <<>>)

NextRowStore ==
    \/ \E at \in 0..MaxRows : \E chars \in {<<>>, <<"c">>} : InsertRowOp(at, chars)
    \/ \E at \in 0..MaxRows : DelRowOp(at)
    \/ \E key \in ArrowKeys : MoveCursorOp(key)

SpecRowStore == InitRowStore /\ [][NextRowStore]_vars

----------------------------------------------------------------------------
(* Properties *)

\* The raw text of every row
RawOf(c) == [k \in 1..Len(c.rows) |-> c.rows[k].chars]

\* C1: after any sequence of row inserts, row deletes, line breaks and joins,
\* starting from an empty or freshly loaded document, every row's idx equals
\* its position in the row vector.
C1_IndexIsPosition ==
    \A k \in 1..Len(cfg.rows) : cfg.rows[k].idx = k - 1

\* C2: after any sequence of character inserts, character deletes, line breaks
\* and joins, every row's render is at least as long as its chars, and running
\* editor_update_row again on the row as stored (tab expansion, then the
\* classification that starts from the previous row's hl_open_comment) gives
\* back the stored render and the stored hl.
C2_RederivationReproduces ==
    mode = "main" =>
        \A k \in 1..Len(cfg.rows) :
            LET again == editor_update_row(cfg.editor_syntax, cfg.rows, k - 1)
            IN /\ Len(cfg.rows[k].render) >= Len(cfg.rows[k].chars)
               /\ ~again.panic
               /\ again.rows[k].render = cfg.rows[k].render
               /\ again.rows[k].hl = cfg.rows[k].hl

\* An edited two-row document of a C file that holds a block-comment tag.
C2_Witness ==
    /\ mode = "main"
    /\ cfg.dirty
    /\ cfg.numrows = 2
    /\ \E k \in 1..Len(cfg.rows) :
          /\ Len(cfg.rows[k].chars) = 2
          /\ \E p \in 1..Len(cfg.rows[k].hl) : cfg.rows[k].hl[p] = "MLComment"

\* The rendered column at which raw column c of the row starts, by the mapper
MapperWidth(chars, c) == editor_row_cx_to_rx(RowOf(chars), c)

\* C3: for every row and every raw column c <= len, editor_row_rx_to_cx of
\* editor_row_cx_to_rx of c is c; a rendered column inside the columns the
\* mapper gives to a tab maps to the raw column of that tab; a rendered column
\* at or beyond the row's mapped width maps to the row length.
C3_MapperRoundTrip ==
    InMapper =>
        LET chars == probe.chars
            len == Len(chars)
        IN /\ probe.op = "round" => probe.cx = probe.arg
           /\ probe.op = "raw" =>
                 /\ \A t \in 0..(len - 1) :
                       (/\ chars[t + 1] = TAB
                        /\ MapperWidth(chars, t) <= probe.rx
                        /\ probe.rx < MapperWidth(chars, t + 1)) => probe.cx = t
                 /\ probe.rx >= MapperWidth(chars, len) => probe.cx = len

\* A rendered column strictly inside the expansion of a tab that is not the
\* first character of the row, mapped back to the tab.
C3_Witness ==
    /\ InMapper
    /\ probe.op = "raw"
    /\ \E t \in 1..(Len(probe.chars) - 1) :
          /\ probe.chars[t + 1] = TAB
          /\ MapperWidth(probe.chars, t) < probe.rx
          /\ probe.rx < MapperWidth(probe.chars, t + 1)
          /\ probe.cx = t

\* Typing ch gives the cursor row a block-comment start it did not have, with no
\* block-comment end on the row.
C4_EditOpensComment(ch) ==
    LET k == cfg.cy + 1
        mcs == cfg.editor_syntax[1].multiline_comment_start
        mce == cfg.editor_syntax[1].multiline_comment_end
        after == InsertAt(cfg.rows[k].chars, cfg.cx, ch)
    IN /\ cfg.editor_syntax # None
       /\ cfg.cy < cfg.numrows
       /\ cfg.cx <= Len(cfg.rows[k].chars)
       /\ ~editor_refresh_screen(cfg).panic
       /\ Find(cfg.rows[k].chars, mcs) = -1
       /\ Find(after, mcs) # -1
       /\ Find(after, mce) = -1

\* The cursor row is left open and the row after it is all block comment.
C4_Propagated ==
    LET k == cfg.cy + 1
    IN /\ mode' = "main"
       /\ cfg'.rows[k].hl_open_comment
       /\ k < Len(cfg'.rows) =>
             \A p \in 1..Len(cfg'.rows[k + 1].hl) : cfg'.rows[k + 1].hl[p] = "MLComment"

\* C4: with a syntax that has block comments, typing a character that gives
\* the cursor row a block-comment start with no block-comment end on the row
\* sets the row's hl_open_comment, and the row after it is reclassified as
\* inside the comment (all of its hl is MLComment) before the key handler
\* returns.
C4_OpenMarkerPropagates ==
    [][\A ch \in EditKeys : (KeyChar(ch) /\ C4_EditOpensComment(ch)) => C4_Propagated]_vars

\* The maximal runs of keyword tags in hl: [from, to) in 0-based positions
IsKeywordTag(t) == t \in {"Keyword1", "Keyword2"}

KeywordRuns(hl) ==
    {r \in (0..Len(hl)) \X (0..Len(hl)) :
        /\ r[1] < r[2]
        /\ \A p \in (r[1] + 1)..r[2] : IsKeywordTag(hl[p])
        /\ r[1] = 0 \/ ~IsKeywordTag(hl[r[1]])
        /\ r[2] = Len(hl) \/ ~IsKeywordTag(hl[r[2] + 1])}

\* The character after the run is a separator
FollowedBySeparator(render, r) == r[2] < Len(render) /\ is_seperator(render[r[2] + 1])

MatchingRows(c, query) == {k \in 0..(c.numrows - 1) : Find(c.rows[k + 1].render, query) # -1}

\* The first row of `rows` after row `from` in ascending order, wrapping
NextMatchAfter(rows, from) ==
    IF \E k \in rows : k > from
    THEN CHOOSE k \in rows : k > from /\ \A j \in rows : j > from => k <= j
    ELSE CHOOSE k \in rows : \A j \in rows : k <= j

\* The cursor is on row k, at the raw column of the first occurrence of the query
C6_HitAt(k, query) ==
    /\ mode' = "find"
    /\ cfg'.cy = k
    /\ cfg'.cx = Find(cfg.rows[k + 1].chars, query)

\* C6: in a search session, a step that starts from no prior match (a query
\* character typed) hits the lowest-numbered row whose render contains the
\* query; a forward step after a hit goes to the next matching row in ascending
\* order and wraps after the last; on every hit the cursor row is the hit row
\* and the cursor column is the raw column of the first occurrence.
C6_SearchHitsInOrder ==
    [][/\ \A ch \in FindKeys :
             LET query == Append(prompt.buf, ch)
                 rows == MatchingRows(cfg, query)
             IN (FindKeyChar(ch) /\ rows # {}) => C6_HitAt(NextMatchAfter(rows, -1), query)
       /\ \A key \in {"ArrowRight", "ArrowDown"} :
             LET rows == MatchingRows(cfg, prompt.buf)
             IN (FindKeyArrow(key) /\ cfg.last_match # -1 /\ prompt.buf # <<>> /\ rows # {})
                    => C6_HitAt(NextMatchAfter(rows, cfg.last_match), prompt.buf)]_vars

\* C7: when a search session ends, by cancel or by accept, every row's hl is
\* what it was when the session started.
C7_SearchEndRestoresHl ==
    [][(InFind /\ mode' = "main") => AllHl(cfg') = hl_before]_vars

\* What editor_del_row(at) is to leave behind
C8_DelRowPost(at) ==
    IF at < cfg.numrows
    THEN /\ mode' = "main"
         /\ RawOf(cfg') = RemoveAt(RawOf(cfg), at)
         /\ cfg'.dirty
    ELSE cfg' = cfg

\* C8: editor_del_row(at) with at < numrows completes, removes exactly the row
\* at `at`, leaves the chars and the order of the other rows as they were and
\* sets dirty; with at >= numrows it changes nothing.
C8_DeleteRowRemovesOne ==
    [][\A at \in 0..MaxRows : DelRowOp(at) => C8_DelRowPost(at)]_vars

\* What a line break at the cursor is to leave behind
C9_SplitPost ==
    LET r == cfg.cy
        c == cfg.cx
        raw == RawOf(cfg)
    IN (/\ r < cfg.numrows
        /\ c <= Len(raw[r + 1])
        /\ ~editor_refresh_screen(cfg).panic) =>
           /\ mode' = "main"
           /\ RawOf(cfg') = SubSeq(raw, 1, r)
                              \o <<Prefix(raw[r + 1], c), Suffix(raw[r + 1], c)>>
                              \o SubSeq(raw, r + 2, Len(raw))
           /\ \A k \in {r + 1, r + 2} : cfg'.rows[k].render = RenderOf(cfg'.rows[k].chars)

\* C9: Enter with the cursor at row r, column c <= len leaves row r holding
\* chars[0, c), puts a new row holding chars[c, end) at r + 1, leaves the other
\* rows as they were, and both rows are derived again.
C9_LineBreakSplitsAtCursor ==
    [][KeyEnter => C9_SplitPost]_vars

\* C10: every row's render is its chars with each tab replaced by the spaces
\* that reach the next multiple of KILO_TAB_STOP: raw column c is rendered
\* from rendered column editor_row_cx_to_rx(row, c) on, and the render is
\* editor_row_cx_to_rx(row, len) long.
C10_RenderAgreesWithMapper ==
    \A k \in 1..Len(cfg.rows) :
        LET row == cfg.rows[k]
            len == Len(row.chars)
        IN /\ Len(row.render) = editor_row_cx_to_rx(row, len)
           /\ \A c \in 0..(len - 1) :
                 LET from == editor_row_cx_to_rx(row, c)
                     to == editor_row_cx_to_rx(row, c + 1)
                 IN /\ to <= Len(row.render)
                    /\ IF row.chars[c + 1] = TAB
                       THEN \A p \in (from + 1)..to : row.render[p] = " "
                       ELSE row.render[from + 1] = row.chars[c + 1]

\* C11: in every reachable state every row's hl has exactly one tag per
\* character of its render, tabs or not, syntax or not.
C11_OneTagPerRenderedChar ==
    \A k \in 1..Len(cfg.rows) : Len(cfg.rows[k].hl) = Len(cfg.rows[k].render)

\* The state in which the scan of row k ends when started inside a block comment
\* iff the row before it is left open (never for the first row)
ScanEndOfRow(c, k) ==
    LET row == [c.rows[k] EXCEPT !.hl = Repeat("Normal", Len(c.rows[k].chars))]
        start == k > 1 /\ c.rows[k - 1].hl_open_comment
    IN apply_syntax(c.editor_syntax[1], start, row)

\* C12: with a syntax that has block comments, each row's hl_open_comment is
\* true exactly when the scan of its render, started inside a block comment iff
\* the previous row's hl_open_comment is true, ends inside a block comment.
C12_ContinuationChain ==
    cfg.editor_syntax # None =>
        \A k \in 1..Len(cfg.rows) :
            ~ScanEndOfRow(cfg, k).panic =>
                cfg.rows[k].hl_open_comment = ScanEndOfRow(cfg, k).in_comment

\* C14: with a syntax active the classification of a row completes without an
\* access outside the row's render and hl, also when the row ends with a
\* keyword or a keyword prefix or a block-comment marker.
C14_ClassificationTotal ==
    InSyntax => ~probe.scan.panic

\* C15: a search step with the empty query leaves the cursor, last_match and
\* every row's hl as they were.
C15_EmptyQueryFindsNothing ==
    [][(InFind /\ mode' = "find" /\ prompt'.buf = <<>>) =>
           /\ cfg'.cx = cfg.cx
           /\ cfg'.cy = cfg.cy
           /\ cfg'.last_match = cfg.last_match
           /\ AllHl(cfg') = AllHl(cfg)]_vars

\* The position right after the first block-comment end at or after position 2, or -1
FirstCloseEnd(render, mce) ==
    LET hits == {q \in 2..(Len(render) - Len(mce)) : SubSeq(render, q + 1, q + Len(mce)) = mce}
    IN IF hits = {} THEN -1 ELSE (CHOOSE q \in hits : \A j \in hits : q <= j) + Len(mce)

\* C19: when the scan is inside a block comment and the block-comment end
\* stands at the current position, anywhere in the row, the comment is closed
\* there: in a row that starts with a block-comment start, the ordinary
\* characters after the first block-comment end are not MLComment.
C19_CommentClosesAnywhere ==
    (InSyntax /\ probe.scan.done /\ ~probe.scan.panic) =>
        LET render == probe.render
            mcs == C_SYNTAX.multiline_comment_start
            mce == C_SYNTAX.multiline_comment_end
            tail == FirstCloseEnd(render, mce)
        IN (StartsWith(render, mcs) /\ tail # -1) =>
               \A p \in (tail + 1)..Len(render) :
                   render[p] \notin {"/", "*", QUOTE, APOS} => probe.scan.hl[p] # "MLComment"

\* The keyword of the table, without the marker of the second tier
KeywordFull(keyword) == Prefix(keyword, KeywordLen(keyword))

\* C20: a span is classified Keyword2 only if its text is a second-tier keyword
\* with exactly the marker stripped, and Keyword1 only if its text is a
\* first-tier keyword, over exactly the keyword's length.
C20_KeywordTextIsKeyword ==
    InSyntax =>
        \A r \in KeywordRuns(probe.scan.hl) :
            \E j \in 1..Len(C_SYNTAX.keywords) :
                LET keyword == C_SYNTAX.keywords[j]
                IN /\ SubSeq(probe.render, r[1] + 1, r[2]) = KeywordFull(keyword)
                   /\ \A p \in (r[1] + 1)..r[2] :
                         probe.scan.hl[p] = IF KeywordIsKw2(keyword) THEN "Keyword2" ELSE "Keyword1"

\* What editor_insert_row(at, chars) leaves behind, against what it is to
\* leave behind: the row inserted at min(at, numrows)
C13_InsertRowPost(at, chars, checks) ==
    LET c == editor_insert_row(cfg, chars, at, checks)
    IN /\ ~c.panic
       /\ RawOf(c) = InsertAt(RawOf(cfg), Min(at, cfg.numrows), chars)
       /\ c.numrows = cfg.numrows + 1
       /\ c.dirty

\* C13: editor_insert_row(at, chars) with at > numrows inserts the new row as
\* the last row, the document grows by one row and dirty is set; with
\* 0 <= at <= numrows the new row is at position at and the rows formerly at
\* positions >= at follow it in their previous order.
C13_InsertRowClamps ==
    (InMain /\ cfg.numrows < MaxRows) =>
        \A at \in 0..MaxRows : \A chars \in {<<>>, <<"c">>} : \A checks \in BOOLEAN :
            C13_InsertRowPost(at, chars, checks)

\* The syntax the name's extension selects
SyntaxFor(filename) ==
    IF filename = None \/ \A k \in 1..Len(hldb) : filename[1] \notin hldb[k].filematch
    THEN None
    ELSE Some(hldb[CHOOSE k \in 1..Len(hldb) : filename[1] \in hldb[k].filematch])

\* The classification of row k of c under c's syntax: one tag per character
\* of render, all Normal if there is no syntax
ClassificationOf(c, k) ==
    LET blank == Repeat("Normal", Len(c.rows[k].render))
        start == k > 1 /\ c.rows[k - 1].hl_open_comment
    IN IF c.editor_syntax = None THEN blank
       ELSE apply_syntax(c.editor_syntax[1], start, [c.rows[k] EXCEPT !.hl = blank]).hl

\* C16: once a save has taken a file name from its prompt, editor_syntax is
\* the syntax whose filematch holds the name's extension, or None, and every
\* row's hl is its classification under that syntax (all Normal under None).
C16_SelectionReclassifiesEveryRow ==
    [][(\E answer \in SaveAnswers \ {None} : \E io \in SaveIo : KeySave(answer, io))
           /\ mode' = "main" =>
           /\ cfg'.editor_syntax = SyntaxFor(cfg'.filename)
           /\ \A k \in 1..Len(cfg'.rows) : cfg'.rows[k].hl = ClassificationOf(cfg', k)]_vars

\* What Backspace at column 0 is to leave behind
C17_JoinPost ==
    LET r == cfg.cy
        raw == RawOf(cfg)
    IN /\ (r >= 1 /\ r < cfg.numrows) =>
             /\ mode' = "main"
             /\ RawOf(cfg') = SubSeq(raw, 1, r - 1) \o <<raw[r] \o raw[r + 1]>>
                                \o SubSeq(raw, r + 2, Len(raw))
             /\ cfg'.rows[r].render = RenderOf(cfg'.rows[r].chars)
             /\ cfg'.cy = r - 1
             /\ cfg'.cx = Len(raw[r])
       /\ r = 0 =>
             /\ mode' = "main"
             /\ RawOf(cfg') = raw
             /\ cfg'.cy = 0 /\ cfg'.cx = 0
             /\ cfg'.dirty = cfg.dirty

\* C17: Backspace at column 0 of row r >= 1 makes row r-1's chars its previous
\* chars followed by row r's chars, removes row r, leaves the other rows as
\* they were, derives row r-1 again and puts the cursor on row r-1 at the
\* column that was row r-1's length; at row 0 column 0 it changes nothing.
C17_BackspaceJoinsWithPrevious ==
    [][(KeyDelete /\ cfg.cx = 0 /\ ~editor_refresh_screen(cfg).panic) => C17_JoinPost]_vars

\* Where line k starts in the text of `lines`, counted from 0
RECURSIVE TextOffset(_, _)
TextOffset(lines, k) ==
    IF k = 1 THEN 0 ELSE TextOffset(lines, k - 1) + Len(lines[k - 1]) + 1

\* `text` is the lines in order, each followed by one newline
TextIsLines(text, lines) ==
    /\ Len(text) = TextOffset(lines, Len(lines) + 1)
    /\ \A k \in 1..Len(lines) :
          /\ \A j \in 1..Len(lines[k]) : text[TextOffset(lines, k) + j] = lines[k][j]
          /\ text[TextOffset(lines, k) + Len(lines[k]) + 1] = "\n"

\* C18: editor_rows_to_string is the rows' chars in row order, each followed
\* by one newline; after editor_open on a sequence of lines the rows are those
\* lines, dirty is false, and editor_rows_to_string gives the lines back, each
\* ended by a newline.
C18_LoadThenTextGivesLines ==
    /\ mode = "main" => TextIsLines(editor_rows_to_string(cfg), RawOf(cfg))
    /\ (InLoad /\ probe.stage # "new") =>
          /\ mode = "main"
          /\ RawOf(cfg) = probe.lines
          /\ ~cfg.dirty
          /\ probe.stage = "text" => TextIsLines(probe.text, probe.lines)

\* The position of the first quote `q` at or after position p that no
\* backslash escapes, or the length of the row if there is none
RECURSIVE MatchingQuote(_, _, _)
MatchingQuote(render, q, p) ==
    IF p > Len(render) THEN Len(render)
    ELSE IF render[p] = BACKSLASH THEN MatchingQuote(render, q, p + 2)
    ELSE IF render[p] = q THEN p
    ELSE MatchingQuote(render, q, p + 1)

\* C21: a string opened by a quote character is ended only by an unescaped
\* quote of the same kind: in a row that starts with a quote, every character
\* up to the first unescaped quote of that kind is String, the other kind of
\* quote and an escaped quote included.
C21_StringEndsAtMatchingQuote ==
    (InSyntax /\ probe.scan.done /\ ~probe.scan.panic) =>
        LET render == probe.render
        IN (Len(render) > 0 /\ render[1] \in {QUOTE, APOS}) =>
               \A p \in 1..MatchingQuote(render, render[1], 2) : probe.scan.hl[p] = "String"

\* C22: the snapshot saved_hl belongs to one search session: when a session
\* ends, by Enter or by Escape, no snapshot is held, so a later session starts
\* without one and its first step writes no tag of an earlier session.
C22_SnapshotEndsWithSession ==
    [][(InFind /\ mode' = "main") => cfg'.saved_hl = None]_vars

\* No row's render holds the query
NoRowHolds(c, query) == \A k \in 1..Len(c.rows) : Find(c.rows[k].render, query) = -1

\* What a search step that finds nothing is to leave behind
C23_NoHitPost(c0, query, key) ==
    LET c == editor_find_callback(c0, query, key)
    IN NoRowHolds(c0, query) =>
          /\ ~c.panic
          /\ c.cx = c0.cx /\ c.cy = c0.cy
          /\ c.last_match = c0.last_match
          /\ \A k \in 1..Len(c.rows) : \A p \in 1..Len(c.rows[k].hl) : c.rows[k].hl[p] # "Match"

\* C23: a search step whose scan finds the query in no row leaves cx, cy and
\* last_match as they were and leaves no Match tag in any row, whichever key
\* other than Enter and Escape triggers it: an arrow, Backspace, or a further
\* character typed after an earlier hit.
C23_NoHitChangesNothing ==
    (InFind /\ ~editor_refresh_screen(cfg).panic) =>
        LET c0 == editor_refresh_screen(cfg)
        IN /\ \A ch \in FindKeys : C23_NoHitPost(c0, Append(prompt.buf, ch), "Char")
           /\ C23_NoHitPost(c0, Prefix(prompt.buf, Len(prompt.buf) - 1), "Backspace")
           /\ \A key \in ArrowKeys : C23_NoHitPost(c0, prompt.buf, key)

\* What a hit of `query` on row k (0-based), whose chars hold a tab, is to
\* leave behind
C24_TabHitPost(k, query) ==
    LET index == Find(cfg.rows[k + 1].render, query)
    IN /\ mode' = "find"
       /\ cfg'.cy = k
       /\ cfg'.cx < Len(cfg'.rows[k + 1].chars)
       /\ cfg'.rows[k + 1].chars[cfg'.cx + 1] = query[1]
       /\ Len(cfg'.rows[k + 1].hl) = Len(cfg'.rows[k + 1].render)
       /\ \A p \in 1..Len(cfg'.rows[k + 1].hl) :
             (cfg'.rows[k + 1].hl[p] = "Match") <=> (index < p /\ p <= index + Len(query))

\* C24: a hit in a row whose chars hold tabs and other characters puts the
\* cursor on the raw column of the character that the match starts with
\* (chars[cx] is the first character of the query when that is no tab) and
\* tags exactly the rendered positions of the match as Match, inside hl.
C24_TabRowHit ==
    [][\A ch \in FindKeys :
          LET query == Append(prompt.buf, ch)
              rows == MatchingRows(cfg, query)
              k == NextMatchAfter(rows, -1)
          IN (/\ FindKeyChar(ch)
              /\ rows # {}
              /\ ~editor_refresh_screen(cfg).panic
              /\ \E j \in 1..Len(cfg.rows[k + 1].chars) : cfg.rows[k + 1].chars[j] = TAB)
                 => C24_TabHitPost(k, query)]_vars

\* C25: in every state the editing keys lead to, cy <= numrows and cx is at
\* most the length of row cy's chars (0 on the line below the last row), and
\* no key has addressed a row that does not exist.
C25_CursorInsideDocument ==
    /\ mode # "crashed"
    /\ cfg.cy <= cfg.numrows
    /\ cfg.cx <= (IF cfg.cy < cfg.numrows THEN Len(cfg.rows[cfg.cy + 1].chars) ELSE 0)

\* The rows (1-based) that hold a Match tag
MatchRows(c) == {k \in 1..Len(c.rows) : \E p \in 1..Len(c.rows[k].hl) : c.rows[k].hl[p] = "Match"}

\* hl of row k with every Match tag replaced by the classification at its position
WithoutOverlay(c, k) ==
    [p \in 1..Len(c.rows[k].hl) |->
        IF c.rows[k].hl[p] = "Match" THEN ClassificationOf(c, k)[p] ELSE c.rows[k].hl[p]]

\* C26: between the steps of a search at most one row holds Match tags, it is
\* row saved_hl_line, and saved_hl is that row's hl with the Match tags
\* replaced by the row's classification; outside a search no row holds a
\* Match tag.
C26_OneOverlayWithSnapshot ==
    /\ mode = "main" => MatchRows(cfg) = {}
    /\ mode = "find" =>
          /\ Cardinality(MatchRows(cfg)) <= 1
          /\ \A k \in MatchRows(cfg) :
                /\ cfg.saved_hl_line = k - 1
                /\ cfg.saved_hl = Some(WithoutOverlay(cfg, k))

\* C27: editor_scroll, run at the head of every frame on a window of at least
\* one row and one column, completes and leaves rx the rendered column of the
\* cursor (0 below the last row), rowoff <= cy < rowoff + screenrows and
\* coloff <= rx < coloff + screencols.
C27_CursorInsideWindow ==
    (mode # "crashed" /\ cfg.screenrows >= 1 /\ cfg.screencols >= 1) =>
        LET c == editor_scroll(cfg)
        IN /\ ~c.panic
           /\ c.rx = (IF cfg.cy < cfg.numrows
                      THEN editor_row_cx_to_rx(cfg.rows[cfg.cy + 1], cfg.cx) ELSE 0)
           /\ c.cx = cfg.cx /\ c.cy = cfg.cy
           /\ c.rowoff <= c.cy /\ c.cy < c.rowoff + c.screenrows
           /\ c.coloff <= c.rx /\ c.rx < c.coloff + c.screencols

\* The cursor is below the window, and editor_scroll moves the window down to it
C27_Witness ==
    /\ mode # "crashed"
    /\ cfg.numrows >= 1
    /\ cfg.cy >= cfg.rowoff + cfg.screenrows
    /\ editor_scroll(cfg).rowoff = cfg.cy - cfg.screenrows + 1

\* C28: a character typed with the cursor on the line below the last row
\* (cy = numrows, the empty document included) adds one row at the end whose
\* chars are that character, leaves the chars and the order of the rows
\* before it as they were, adds one to cx and sets dirty.
C28_TypingBelowLastRowAppends ==
    [][\A ch \in EditKeys :
          (KeyChar(ch) /\ cfg.cy = cfg.numrows /\ ~editor_refresh_screen(cfg).panic) =>
              /\ mode' = "main"
              /\ RawOf(cfg') = Append(RawOf(cfg), <<ch>>)
              /\ cfg'.cx = cfg.cx + 1
              /\ cfg'.dirty]_vars

====
